---- MODULE Spec2Model ----
(***************************************************************************)
(* Model of src/app.py: the yield computations, the ex-dividend alert      *)
(* scan, the market-data fetch with its synthetic fallback, the dashboard   *)
(* sections that consume them and the auto-refresh loop of the script.     *)
(*                                                                         *)
(* Numbers: a Python/numpy float is modelled as an exact fraction          *)
(* [n, d] with d >= 0; d = 0 encodes the IEEE specials (n > 0: +inf,       *)
(* n < 0: -inf, n = 0: NaN).  Rounding of binary doubles is not modelled.  *)
(***************************************************************************)
EXTENDS Integers, Sequences, FiniteSets, TLC

\* ------------------------------------------------------------------ bounds
MaxTs == 3
MaxDays == 27
MaxCalls == 2
MaxSyms == 2
MaxTicks == 2
MaxReruns == 2

\* --------------------------------------------------------- float arithmetic
Abs(x) == IF x < 0 THEN -x ELSE x

Sign(x) == IF x < 0 THEN -1 ELSE IF x > 0 THEN 1 ELSE 0

RECURSIVE GCD(_, _)
GCD(a, b) == IF b = 0 THEN a ELSE GCD(b, a % b)

\* the float n/d (d > 0) in lowest terms
Rat(n, d) == LET g == GCD(Abs(n), d) IN [n |-> n \div g, d |-> d \div g]

Zero == [n |-> 0, d |-> 1]
Hundred == [n |-> 100, d |-> 1]
NaN == [n |-> 0, d |-> 0]
Inf(s) == [n |-> s, d |-> 0]

IsNaN(x) == x.d = 0 /\ x.n = 0
IsInf(x) == x.d = 0 /\ x.n # 0

\* a * b on floats (IEEE: inf * 0 = NaN)
FMul(a, b) ==
    IF IsNaN(a) \/ IsNaN(b) THEN NaN
    ELSE IF a.d = 0 \/ b.d = 0
         THEN (IF a.n * b.n = 0 THEN NaN ELSE Inf(Sign(a.n) * Sign(b.n)))
         ELSE Rat(a.n * b.n, a.d * b.d)

\* a / b on numpy floats: x / 0 is +-inf, 0 / 0 is NaN, nothing is raised
FDiv(a, b) ==
    IF IsNaN(a) \/ IsNaN(b) THEN NaN
    ELSE IF b.d = 0 THEN (IF a.d = 0 THEN NaN ELSE Zero)
    ELSE IF a.d = 0 THEN Inf(IF b.n < 0 THEN -a.n ELSE a.n)
    ELSE IF b.n = 0 THEN (IF a.n = 0 THEN NaN ELSE Inf(Sign(a.n)))
    ELSE Rat(a.n * b.d * Sign(b.n), a.d * Abs(b.n))

\* a > 0 (False for NaN)
FPos(a) == a.n > 0

\* ------------------------------------------------------------ Python dicts
\* d.get(k, default)
DictGet(d, k, default) == IF k \in DOMAIN d THEN d[k] ELSE default

EmptyDict == [k \in {} |-> 0]

\* ------------------------------------------------------------------- dates
Date(y, m, d) == [y |-> y, m |-> m, d |-> d]

IsLeap(y) == y % 4 = 0 /\ (y % 100 # 0 \/ y % 400 = 0)

DaysInMonth(y, m) ==
    IF m = 2 THEN (IF IsLeap(y) THEN 29 ELSE 28)
    ELSE IF m \in {4, 6, 9, 11} THEN 30 ELSE 31

RECURSIVE DaysBeforeMonth(_, _)
DaysBeforeMonth(y, m) ==
    IF m = 1 THEN 0 ELSE DaysBeforeMonth(y, m - 1) + DaysInMonth(y, m - 1)

\* date.toordinal()
ToOrdinal(dt) ==
    LET y1 == dt.y - 1
    IN  y1 * 365 + (y1 \div 4) - (y1 \div 100) + (y1 \div 400)
        + DaysBeforeMonth(dt.y, dt.m) + dt.d

\* (a - b).days
DaysBetween(a, b) == ToOrdinal(a) - ToOrdinal(b)

Digits == <<"0", "1", "2", "3", "4", "5", "6", "7", "8", "9">>

DigitVal(c) == (CHOOSE i \in 1..10 : Digits[i] = c) - 1

\* datetime.strptime(s, '%Y-%m-%d').date(), s a sequence of characters
StrpDate(s) ==
    Date(1000 * DigitVal(s[1]) + 100 * DigitVal(s[2]) + 10 * DigitVal(s[3]) + DigitVal(s[4]),
         10 * DigitVal(s[6]) + DigitVal(s[7]),
         10 * DigitVal(s[9]) + DigitVal(s[10]))

NextDay(dt) ==
    IF dt.d < DaysInMonth(dt.y, dt.m) THEN Date(dt.y, dt.m, dt.d + 1)
    ELSE IF dt.m < 12 THEN Date(dt.y, dt.m + 1, 1)
    ELSE Date(dt.y + 1, 1, 1)

RECURSIVE AddDays(_, _)
AddDays(dt, k) == IF k = 0 THEN dt ELSE AddDays(NextDay(dt), k - 1)

\* ------------------------------------------------------ the schedule table
S_2025_06_15 == <<"2", "0", "2", "5", "-", "0", "6", "-", "1", "5">>
S_2025_06_30 == <<"2", "0", "2", "5", "-", "0", "6", "-", "3", "0">>
S_2025_08_15 == <<"2", "0", "2", "5", "-", "0", "8", "-", "1", "5">>
S_2025_09_15 == <<"2", "0", "2", "5", "-", "0", "9", "-", "1", "5">>
S_2025_09_30 == <<"2", "0", "2", "5", "-", "0", "9", "-", "3", "0">>
S_2025_12_31 == <<"2", "0", "2", "5", "-", "1", "2", "-", "3", "1">>

\* insertion order of the PREFERRED_STOCKS dict
Keys == <<"STRC", "STRD", "STRF", "STRK">>

KeySet == {Keys[i] : i \in 1..Len(Keys)}

PREFERRED_STOCKS ==
    [s \in KeySet |->
        CASE s = "STRC" ->
               [name |-> "MicroStrategy Inc. 9.00% Pfd Stock Series D",
                current_rate |-> Rat(10, 1), par |-> Rat(100, 1),
                payment_frequency |-> "Monthly",
                last_ex_div |-> S_2025_08_15, next_ex_div |-> S_2025_09_15,
                quarterly_dividend |-> Rat(250, 100)]
          [] s = "STRD" ->
               [name |-> "MicroStrategy Inc. 0.875% Pfd Stock Series C",
                current_rate |-> Rat(10, 1), par |-> Rat(100, 1),
                payment_frequency |-> "Quarterly",
                last_ex_div |-> S_2025_06_15, next_ex_div |-> S_2025_09_15,
                quarterly_dividend |-> Rat(250, 100)]
          [] s = "STRF" ->
               [name |-> "MicroStrategy Inc. 10.00% Pfd Stock Series B",
                current_rate |-> Rat(10, 1), par |-> Rat(100, 1),
                payment_frequency |-> "Quarterly",
                last_ex_div |-> S_2025_06_30, next_ex_div |-> S_2025_09_30,
                quarterly_dividend |-> Rat(250, 100)]
          [] s = "STRK" ->
               [name |-> "MicroStrategy Inc. 8.00% Pfd Stock Series A",
                current_rate |-> Rat(8, 1), par |-> Rat(100, 1),
                payment_frequency |-> "Quarterly",
                last_ex_div |-> S_2025_06_30, next_ex_div |-> S_2025_09_30,
                quarterly_dividend |-> Rat(200, 100)]]

\* PREFERRED_STOCKS.get(symbol, {})
StocksGet(symbol) ==
    IF symbol \in KeySet THEN PREFERRED_STOCKS[symbol] ELSE EmptyDict

\* --------------------------------------------------------------- variables
VARIABLES
    call,     \* the invocation under way: the function and its arguments
    cache,    \* st.cache_data store of fetch_dividend_data_from_web
    data_cache, \* st.cache_data store of fetch_stock_data
    rets,     \* what the successive executions of `call` returned
    run       \* the script run under way: where it stands, the clock, the button

vars == <<call, cache, data_cache, rets, run>>

\* Python None
None == [kind |-> "None"]

\* no script is running: a function is invoked on its own
NoRun == [pc |-> "none"]

\* a pandas frame / series is a sequence of rows ordered by timestamp;
\* pd.DataFrame() is the empty sequence
Empty(frame) == Len(frame) = 0

\* ------------------------------------------- fetch_dividend_data_from_web
\* the body of the function: both branches return the static record
DividendDataBody(symbol) == StocksGet(symbol)

\* variant: the store keeps an empty record instead of the computed value
CacheStoreEmpty(c, symbol, v) ==
    [k \in DOMAIN c \cup {symbol} |-> IF k = symbol THEN EmptyDict ELSE c[k]]

\* what st.cache_data stores for a computed value
CacheStore(c, symbol, v) ==
    [k \in DOMAIN c \cup {symbol} |-> IF k = symbol THEN v ELSE c[k]]

\* the cached function: [val, cache] = the value returned and the store after
fetch_dividend_data_from_web(c, symbol) ==
    IF symbol \in DOMAIN c
    THEN [val |-> c[symbol], cache |-> c]
    ELSE LET v == DividendDataBody(symbol)
         IN  [val |-> v, cache |-> CacheStore(c, symbol, v)]

\* ------------------------------------------------- calculate_yield_metrics
\* par_value * (annual_dividend_rate / 100)
AnnualDividend(dividend_info) ==
    LET annual_dividend_rate == DictGet(dividend_info, "current_rate", Zero)
        par_value == DictGet(dividend_info, "par", Hundred)
    IN  FMul(par_value, FDiv(annual_dividend_rate, Hundred))

\* variant: the percentage factor is left out
CurrentYieldNoPct(annual_dividend, current_price) ==
    IF FPos(current_price) THEN FDiv(annual_dividend, current_price) ELSE Zero

\* variant: the current_price > 0 guard is left out
CurrentYieldNoGuard(annual_dividend, current_price) ==
    FMul(FDiv(annual_dividend, current_price), Hundred)

\* (annual_dividend / current_price) * 100 if current_price > 0 else 0
CurrentYield(annual_dividend, current_price) ==
    IF FPos(current_price)
    THEN FMul(FDiv(annual_dividend, current_price), Hundred)
    ELSE Zero

\* variant: an empty dividend_info falls through to the .get defaults
NoDividendInfoDefaults ==
    [kind |-> "dict", current_price |-> Zero, current_yield |-> Zero,
     yield_to_par |-> Zero, annual_dividend |-> Zero, par_value |-> Hundred,
     dividend_info |-> EmptyDict]

\* what the function does with an empty dividend_info
NoDividendInfo == None

\* the returned dict
MetricsDict(current_price, dividend_info, annual_dividend) ==
    [kind |-> "dict",
     current_price |-> current_price,
     current_yield |-> CurrentYield(annual_dividend, current_price),
     yield_to_par |-> DictGet(dividend_info, "current_rate", Zero),
     annual_dividend |-> annual_dividend,
     par_value |-> DictGet(dividend_info, "par", Hundred),
     dividend_info |-> dividend_info]

\* the function from the dividend lookup on; f is what the lookup gave
MetricsFrom(current_price, f) ==
    IF DOMAIN f.val = {}
    THEN [ret |-> NoDividendInfo, cache |-> f.cache]
    ELSE [ret |-> MetricsDict(current_price, f.val, AnnualDividend(f.val)),
          cache |-> f.cache]

calculate_yield_metrics(c, stock_data, symbol) ==
    IF Empty(stock_data) THEN [ret |-> None, cache |-> c]
    ELSE MetricsFrom(stock_data[Len(stock_data)].Close,
                     fetch_dividend_data_from_web(c, symbol))

\* --------------------------------------------- calculate_historical_yields
\* (annual_dividend / stock_data['Close']) * 100, elementwise, index kept
SeriesYield(annual_dividend, stock_data) ==
    [i \in 1..Len(stock_data) |->
        [ts |-> stock_data[i].ts,
         val |-> FMul(FDiv(annual_dividend, stock_data[i].Close), Hundred)]]

\* variant: infinities are not replaced before dropna
ReplaceInfSkipped(series) == series

\* .replace([np.inf, -np.inf], np.nan)
ReplaceInf(series) ==
    [i \in 1..Len(series) |->
        [ts |-> series[i].ts,
         val |-> IF IsInf(series[i].val) THEN NaN ELSE series[i].val]]

\* variant: rows with a yield below zero are dropped as well
KeepRowPositive(row) == ~IsNaN(row.val) /\ row.val.n >= 0

KeepRow(row) == ~IsNaN(row.val)

\* .dropna()
DropNa(series) == SelectSeq(series, KeepRow)

\* the function from the dividend lookup on; f is what the lookup gave
HistoricalFrom(stock_data, f) ==
    IF DOMAIN f.val = {}
    THEN [ret |-> <<>>, cache |-> f.cache]
    ELSE [ret |-> DropNa(ReplaceInf(SeriesYield(AnnualDividend(f.val), stock_data))),
          cache |-> f.cache]

calculate_historical_yields(c, stock_data, symbol) ==
    IF Empty(stock_data) THEN [ret |-> <<>>, cache |-> c]
    ELSE HistoricalFrom(stock_data, fetch_dividend_data_from_web(c, symbol))

\* --------------------------------------------- check_upcoming_ex_div_dates
LookaheadDays == 7

\* variant: the window is open at both ends
InWindowStrict(days_until) == 0 < days_until /\ days_until < LookaheadDays

\* 0 <= days_until <= 7
InWindow(days_until) == 0 <= days_until /\ days_until <= LookaheadDays

\* variant: alerts.insert(0, {...})
PrependAlert(alerts, alert) == <<alert>> \o alerts

\* alerts.append({...})
AppendAlert(alerts, alert) == Append(alerts, alert)

\* the loop over PREFERRED_STOCKS.items(), from the i-th key on
\* one turn of the loop: the alerts after looking at one schedule
ExDivStep(alerts, symbol, info, next_ex_div, days_until) ==
    IF InWindow(days_until)
    THEN AppendAlert(alerts,
             [symbol |-> symbol,
              ex_div_date |-> next_ex_div,
              days_until |-> days_until,
              dividend |-> DictGet(info, "quarterly_dividend", Zero)])
    ELSE alerts

\* next_ex_div of a schedule, as a date
NextExDiv(info) == StrpDate(DictGet(info, "next_ex_div", S_2025_12_31))

RECURSIVE ExDivLoop(_, _, _)
ExDivLoop(today, i, alerts) ==
    IF i > Len(Keys) THEN alerts
    ELSE ExDivLoop(today, i + 1,
             ExDivStep(alerts, Keys[i], PREFERRED_STOCKS[Keys[i]],
                       NextExDiv(PREFERRED_STOCKS[Keys[i]]),
                       DaysBetween(NextExDiv(PREFERRED_STOCKS[Keys[i]]), today)))

\* today stands for datetime.now().date()
check_upcoming_ex_div_dates(today) == ExDivLoop(today, 1, <<>>)

\* --------------------------------------------------------- fetch_stock_data
\* a Python dict with its insertion order: the keys in order, and the values
DictEmpty == [keys |-> <<>>, val |-> EmptyDict]

\* d[k] = v
DictSet(d, k, v) ==
    [keys |-> IF k \in DOMAIN d.val THEN d.keys ELSE Append(d.keys, k),
     val |-> [x \in DOMAIN d.val \cup {k} |-> IF x = k THEN v ELSE d.val[x]]]

\* len(pd.date_range(now - 30 days, now, freq='D'))
DummyRows == 31

\* the i-th draw of np.random.randn from generator state rng, as one of
\* -1, 0, 1: a sample of what the generator can deliver
Randn(rng, i) == ((rng + i) % 3) - 1

\* base_price + np.random.randn(len(dates)) * 2, indexed by the dates; of the
\* columns only Close is ever read
DummyFrame(symbol, rng) ==
    LET base_price == IF symbol = "STRC" THEN 95 ELSE 25
    IN  [i \in 1..DummyRows |-> [ts |-> i, Close |-> Rat(base_price + Randn(rng, i) * 2, 1)]]

\* the generator after randn(len(dates)) and randint(..., len(dates))
RngAfterDummy(rng) == (rng + 2 * DummyRows) % 3

\* variant: an empty history is stored as it came
EmptyHistKept(symbol, hist, rng) == [raised |-> FALSE, frame |-> hist, rng |-> rng]

\* the else branch: the history came back empty
EmptyHist(symbol, hist, rng) ==
    [raised |-> FALSE, frame |-> DummyFrame(symbol, rng), rng |-> RngAfterDummy(rng)]

\* the except branch: yfinance raised
ExceptHandler(symbol, rng) ==
    [raised |-> FALSE, frame |-> DummyFrame(symbol, rng), rng |-> RngAfterDummy(rng)]

\* one turn of the loop; outcome is what yf.Ticker(symbol).history(...) did
FetchOne(symbol, outcome, rng) ==
    IF outcome.kind = "raise" THEN ExceptHandler(symbol, rng)
    ELSE IF ~Empty(outcome.frame)
         THEN [raised |-> FALSE, frame |-> outcome.frame, rng |-> rng]
         ELSE EmptyHist(symbol, outcome.frame, rng)

\* the loop over symbols, from the i-th on; [kind "raise"] if a turn raised
RECURSIVE FetchLoop(_, _, _, _, _)

\* after one turn: an exception that escaped ends the call, else data[symbol]
\* is set and the loop goes on
FetchNext(symbols, i, data, yf, step) ==
    IF step.raised THEN [kind |-> "raise", rng |-> step.rng]
    ELSE FetchLoop(symbols, i + 1, DictSet(data, symbols[i], step.frame), yf, step.rng)

FetchLoop(symbols, i, data, yf, rng) ==
    IF i > Len(symbols) THEN [kind |-> "dict", data |-> data, rng |-> rng]
    ELSE FetchNext(symbols, i, data, yf, FetchOne(symbols[i], yf[symbols[i]], rng))

\* the body of fetch_stock_data
FetchStockDataBody(symbols, yf, rng) == FetchLoop(symbols, 1, DictEmpty, yf, rng)

\* @st.cache_data(ttl=30): dc maps the argument lists already served to the
\* value stored; a raised exception stores nothing
\* what st.cache_data does with the outcome r of the body
DataCacheStore(dc, symbols, r) ==
    IF r.kind = "raise"
    THEN [ret |-> [kind |-> "raise"], data_cache |-> dc, rng |-> r.rng]
    ELSE [ret |-> [kind |-> "dict", data |-> r.data],
          data_cache |-> [k \in DOMAIN dc \cup {symbols} |->
                             IF k = symbols THEN r.data ELSE dc[k]],
          rng |-> r.rng]

fetch_stock_data(dc, symbols, yf, rng) ==
    IF symbols \in DOMAIN dc
    THEN [ret |-> [kind |-> "dict", data |-> dc[symbols]], data_cache |-> dc, rng |-> rng]
    ELSE DataCacheStore(dc, symbols, FetchStockDataBody(symbols, yf, rng))

\* ------------------------------------------------- main_dashboard sections
\* a - b on finite floats
FSub(a, b) ==
    IF a.d = 0 \/ b.d = 0 THEN NaN ELSE Rat(a.n * b.d - b.n * a.d, a.d * b.d)

One == [n |-> 1, d |-> 1]

RoundHalfEven(num, den) ==
    LET q == num \div den
        rem == num - q * den
    IN  IF 2 * rem < den THEN q
        ELSE IF 2 * rem > den THEN q + 1
        ELSE IF q % 2 = 0 THEN q ELSE q + 1

\* f"{x:.1f}" / f"{x:.2f}": the number of tenths / hundredths printed
Fmt(x, places) ==
    IF x.d = 0 THEN [special |-> x.n]
    ELSE [places |-> places,
          units |-> RoundHalfEven(x.n * (IF places = 1 THEN 10 ELSE 100), x.d)]

\* the metric card and the expander of one symbol
MetricCard(symbol, stock_info, metrics) ==
    LET div_info == metrics.dividend_info
    IN  [kind |-> "card", symbol |-> symbol,
         price |-> Fmt(metrics.current_price, 2),
         yield |-> Fmt(metrics.current_yield, 2),
         annual |-> Fmt(metrics.annual_dividend, 2),
         next_ex_div |-> DictGet(div_info, "next_ex_div", "N/A"),
         name |-> stock_info.name,
         par |-> Fmt(metrics.par_value, 2),
         rate |-> Fmt(DictGet(div_info, "current_rate", Zero), 1),
         yield_at_par |-> Fmt(metrics.yield_to_par, 2),
         frequency |-> DictGet(div_info, "payment_frequency", "N/A"),
         last_ex_div |-> DictGet(div_info, "last_ex_div", "N/A"),
         quarterly |-> IF DictGet(div_info, "payment_frequency", None) = "Quarterly"
                       THEN Fmt(DictGet(div_info, "quarterly_dividend", Zero), 2)
                       ELSE None]

\* st.error(...)
ErrorPanel(symbol, text) == [kind |-> "error", symbol |-> symbol, text |-> text]

RECURSIVE PanelLoop(_, _, _)

\* the column of a symbol that has data; r is what calculate_yield_metrics
\* returned for it
PanelWithData(i, stock_data, acc, symbol, r) ==
    PanelLoop(i + 1, stock_data,
        [cache |-> r.cache,
         yield_data |-> IF r.ret.kind = "dict"
                        THEN DictSet(acc.yield_data, symbol, r.ret)
                        ELSE acc.yield_data,
         panels |-> Append(acc.panels,
                       IF r.ret.kind = "dict"
                       THEN MetricCard(symbol, PREFERRED_STOCKS[symbol], r.ret)
                       ELSE ErrorPanel(symbol, "Unable to calculate metrics")),
         metric_calls |-> Append(acc.metric_calls,
                             [symbol |-> symbol, stock_data |-> stock_data.val[symbol]])])

\* variant: a symbol without data gets placeholder metrics
PanelWithPlaceholder(i, stock_data, acc, symbol) ==
    PanelLoop(i + 1, stock_data,
        [cache |-> acc.cache,
         yield_data |-> DictSet(acc.yield_data, symbol, NoDividendInfoDefaults),
         panels |-> Append(acc.panels, ErrorPanel(symbol, "No data available")),
         metric_calls |-> acc.metric_calls])

\* the column of a symbol without data
PanelWithoutData(i, stock_data, acc, symbol) ==
    PanelLoop(i + 1, stock_data,
        [cache |-> acc.cache,
         yield_data |-> acc.yield_data,
         panels |-> Append(acc.panels, ErrorPanel(symbol, "No data available")),
         metric_calls |-> acc.metric_calls])

\* the loop over PREFERRED_STOCKS.items() that fills the columns, from the
\* i-th key on; acc = [cache, yield_data, panels, metric_calls]
PanelLoop(i, stock_data, acc) ==
    IF i > Len(Keys) THEN acc
    ELSE IF Keys[i] \in DOMAIN stock_data.val /\ ~Empty(stock_data.val[Keys[i]])
         THEN PanelWithData(i, stock_data, acc, Keys[i],
                  calculate_yield_metrics(acc.cache, stock_data.val[Keys[i]], Keys[i]))
         ELSE PanelWithoutData(i, stock_data, acc, Keys[i])

\* "Current Yield vs Yield at Par": one point per key of yield_data
YieldCurve(yield_data) ==
    IF Len(yield_data.keys) = 0 THEN None
    ELSE [kind |-> "chart",
          x |-> yield_data.keys,
          current_yields |-> [k \in 1..Len(yield_data.keys) |->
                                 yield_data.val[yield_data.keys[k]].current_yield],
          yield_to_par |-> [k \in 1..Len(yield_data.keys) |->
                               yield_data.val[yield_data.keys[k]].yield_to_par]]

\* "Current Prices vs Par Value": one bar per key of yield_data
PriceChart(yield_data) ==
    IF Len(yield_data.keys) = 0 THEN None
    ELSE [kind |-> "chart",
          bars |-> [k \in 1..Len(yield_data.keys) |->
                       [x |-> yield_data.keys[k],
                        y |-> yield_data.val[yield_data.keys[k]].current_price,
                        text |-> Fmt(yield_data.val[yield_data.keys[k]].current_price, 2)]]]

RECURSIVE HistLoop(_, _, _)

\* the trace of a symbol that has data; r is what
\* calculate_historical_yields returned for it
HistWithData(i, stock_data, acc, symbol, r) ==
    HistLoop(i + 1, stock_data,
        [cache |-> r.cache,
         traces |-> IF ~Empty(r.ret)
                    THEN Append(acc.traces, [name |-> symbol, points |-> r.ret])
                    ELSE acc.traces,
         hist_calls |-> Append(acc.hist_calls,
                           [symbol |-> symbol, stock_data |-> stock_data.val[symbol]])])

\* the loop over stock_data.items() that adds the traces, from the i-th key
\* on; acc = [cache, traces, hist_calls]
HistLoop(i, stock_data, acc) ==
    IF i > Len(stock_data.keys) THEN acc
    ELSE IF ~Empty(stock_data.val[stock_data.keys[i]])
         THEN HistWithData(i, stock_data, acc, stock_data.keys[i],
                  calculate_historical_yields(acc.cache, stock_data.val[stock_data.keys[i]],
                                              stock_data.keys[i]))
         ELSE HistLoop(i + 1, stock_data, acc)

\* info.get('current_rate', 0) * info.get('par', 100) / 1200
MonthlyAmount(info) ==
    FDiv(FMul(DictGet(info, "current_rate", Zero), DictGet(info, "par", Hundred)),
         [n |-> 1200, d |-> 1])

\* the 'Dividend Amount' column
DividendAmount(info) ==
    IF DictGet(info, "payment_frequency", None) = "Quarterly"
    THEN Fmt(DictGet(info, "quarterly_dividend", Zero), 2)
    ELSE Fmt(MonthlyAmount(info), 2)

\* calendar_data: one row per key of PREFERRED_STOCKS
DividendCalendar ==
    [k \in 1..Len(Keys) |->
        LET info == PREFERRED_STOCKS[Keys[k]]
        IN  [Symbol |-> Keys[k],
             LastExDiv |-> DictGet(info, "last_ex_div", "N/A"),
             NextExDiv |-> DictGet(info, "next_ex_div", "N/A"),
             Frequency |-> DictGet(info, "payment_frequency", "N/A"),
             DividendAmount |-> DividendAmount(info)]]

\* (current_price / par_value - 1) * 100
PremiumDiscount(metrics) ==
    FMul(FSub(FDiv(metrics.current_price, metrics.par_value), One), Hundred)

\* table_data: one row per key of yield_data
MetricsTable(yield_data) ==
    IF Len(yield_data.keys) = 0 THEN None
    ELSE [kind |-> "table",
          rows |-> [k \in 1..Len(yield_data.keys) |->
                      LET symbol == yield_data.keys[k]
                          metrics == yield_data.val[symbol]
                      IN  [Symbol |-> symbol,
                           Name |-> PREFERRED_STOCKS[symbol].name,
                           CurrentPrice |-> Fmt(metrics.current_price, 2),
                           ParValue |-> Fmt(metrics.par_value, 2),
                           AnnualDividend |-> Fmt(metrics.annual_dividend, 2),
                           CurrentYield |-> Fmt(metrics.current_yield, 2),
                           YieldAtPar |-> Fmt(metrics.yield_to_par, 1),
                           PremiumDiscount |-> Fmt(PremiumDiscount(metrics), 2),
                           NextExDiv |-> DictGet(metrics.dividend_info, "next_ex_div", "N/A"),
                           PaymentFreq |-> DictGet(metrics.dividend_info,
                                                   "payment_frequency", "N/A")]]]

\* the page once the columns (cols) and the traces (hist) are there
Page(stock_data, cols, hist) ==
    [ret |-> [kind |-> "page",
              panels |-> cols.panels,
              yield_curve |-> YieldCurve(cols.yield_data),
              price_chart |-> PriceChart(cols.yield_data),
              hist_chart |-> IF Len(stock_data.keys) = 0 THEN None
                             ELSE [kind |-> "chart", traces |-> hist.traces],
              calendar |-> DividendCalendar,
              table |-> MetricsTable(cols.yield_data),
              metric_calls |-> cols.metric_calls,
              hist_calls |-> hist.hist_calls],
     cache |-> hist.cache]

\* the sections after the metric columns
SectionsAfterColumns(stock_data, cols) ==
    Page(stock_data, cols,
         HistLoop(1, stock_data, [cache |-> cols.cache, traces |-> <<>>, hist_calls |-> <<>>]))

\* everything main_dashboard renders from stock_data on: the metric
\* columns, the charts, the calendar and the table
RenderSections(c, stock_data) ==
    SectionsAfterColumns(stock_data,
        PanelLoop(1, stock_data,
            [cache |-> c, yield_data |-> DictEmpty, panels |-> <<>>, metric_calls |-> <<>>]))

\* one line of the alert banner
AlertLine(alert) ==
    [symbol |-> alert.symbol,
     days_text |-> IF alert.days_until = 0 THEN [kind |-> "TODAY"]
                   ELSE [kind |-> "in days", days |-> alert.days_until],
     ex_div_date |-> alert.ex_div_date,
     dividend |-> Fmt(alert.dividend, 2)]

\* "Upcoming Ex-Dividend Alerts": one line per alert, nothing without alerts
AlertBanner(alerts) == [k \in 1..Len(alerts) |-> AlertLine(alerts[k])]

\* main_dashboard once the page r is rendered
DashboardResult(alerts, f, r) ==
    [ret |-> [kind |-> "page", alerts |-> alerts, banner |-> AlertBanner(alerts),
              page |-> r.ret],
     cache |-> r.cache, data_cache |-> f.data_cache]

\* main_dashboard after the alert banner and the fetch
DashboardAfterFetch(c, alerts, f) ==
    IF f.ret.kind = "raise"
    THEN [ret |-> [kind |-> "raise", alerts |-> alerts, banner |-> AlertBanner(alerts)],
          cache |-> c, data_cache |-> f.data_cache]
    ELSE DashboardResult(alerts, f, RenderSections(c, f.ret.data))

\* main_dashboard: the alert banner, the fetch, then the sections; today is
\* datetime.now().date(), yf what yfinance does for each symbol
main_dashboard(c, dc, today, yf, rng) ==
    DashboardAfterFetch(c, check_upcoming_ex_div_dates(today),
                        fetch_stock_data(dc, Keys, yf, rng))

\* ------------------------------------------------------------- the inputs
\* closing prices fed to the computations: negative, zero, and positive ones
Closes == {Rat(-25, 1), Rat(0, 1), Rat(25, 1), Rat(11491, 100)}

Timestamps == 1..MaxTs

\* the rows of a frame with index `idx`, in increasing timestamp order
RECURSIVE Sorted(_)
Sorted(idx) ==
    IF idx = {} THEN <<>>
    ELSE LET m == CHOOSE t \in idx : \A u \in idx : t <= u
         IN  <<m>> \o Sorted(idx \ {m})

\* every frame with strictly increasing timestamps and closes in Closes
Frames ==
    UNION {{[i \in 1..Len(Sorted(idx)) |-> [ts |-> Sorted(idx)[i], Close |-> cl[Sorted(idx)[i]]]]
              : cl \in [idx -> Closes]} : idx \in SUBSET Timestamps}

\* the table's symbols and one symbol the table does not hold
AllSymbols == KeySet \cup {"MSTR"}

FirstDay == Date(2025, 9, 5)

Dates == {AddDays(FirstDay, k) : k \in 0..MaxDays}

\* what yf.Ticker(symbol).history(period) can do: return rows, return an
\* empty frame, or raise
HistFrames == {<<>>, <<[ts |-> 1, Close |-> Rat(25, 1)]>>}

YfOutcomes == {[kind |-> "hist", frame |-> f] : f \in HistFrames} \cup {[kind |-> "raise"]}

\* yfinance returns rows for every symbol of the table
AllHist == [s \in KeySet |-> [kind |-> "hist", frame |-> <<[ts |-> 1, Close |-> Rat(25, 1)]>>]]

\* states of the random generator
Seeds == 0..2

\* the lists of symbols fetch_stock_data is asked for
SymbolLists == UNION {[1..k -> AllSymbols] : k \in 0..MaxSyms}

Range(seq) == {seq[i] : i \in 1..Len(seq)}

\* the frames handed to the sections: none, or one row of any close
SectionFrames == {<<>>} \cup {<<[ts |-> 1, Close |-> cl]>> : cl \in Closes}

\* the dicts handed to the sections: any subset of the table's symbols
SectionData ==
    UNION {{[keys |-> SelectSeq(Keys, LAMBDA k : k \in D), val |-> v]
              : v \in [D -> SectionFrames]} : D \in SUBSET KeySet}

Calls ==
    [fn : {"calculate_yield_metrics", "calculate_historical_yields"},
     stock_data : Frames, symbol : AllSymbols]
    \cup [fn : {"check_upcoming_ex_div_dates"}, today : Dates]
    \cup UNION {[fn : {"fetch_stock_data"}, symbols : {l}, yf : [Range(l) -> YfOutcomes],
                 rng : Seeds] : l \in SymbolLists}
    \cup [fn : {"sections"}, stock_data : SectionData]
    \cup [fn : {"main_dashboard"}, today : Dates, yf : {AllHist}, rng : {0}]
    \cup [fn : {"main_dashboard"}, today : {FirstDay}, yf : [KeySet -> YfOutcomes], rng : Seeds]

\* ---------------------------------------------------------------- actions
Init ==
    /\ call \in Calls
    /\ cache = EmptyDict
    /\ data_cache = EmptyDict
    /\ rets = <<>>
    /\ run = NoRun

\* the invocation returns r.ret and leaves r.cache in the dividend store
ReturnAndCache(r) ==
    /\ rets' = Append(rets, r.ret)
    /\ cache' = r.cache

\* the invocation returns r.ret and leaves r.data_cache in the data store
ReturnAndCacheData(r) ==
    /\ rets' = Append(rets, r.ret)
    /\ data_cache' = r.data_cache

\* the invocation returns r.ret and leaves both stores as r has them
ReturnAndCacheBoth(r) ==
    /\ rets' = Append(rets, r.ret)
    /\ cache' = r.cache
    /\ data_cache' = r.data_cache

CallYieldMetrics ==
    /\ call.fn = "calculate_yield_metrics"
    /\ Len(rets) < MaxCalls
    /\ ReturnAndCache(calculate_yield_metrics(cache, call.stock_data, call.symbol))
    /\ UNCHANGED <<call, data_cache, run>>

CallHistoricalYields ==
    /\ call.fn = "calculate_historical_yields"
    /\ Len(rets) < MaxCalls
    /\ ReturnAndCache(calculate_historical_yields(cache, call.stock_data, call.symbol))
    /\ UNCHANGED <<call, data_cache, run>>

CallCheckExDiv ==
    /\ call.fn = "check_upcoming_ex_div_dates"
    /\ Len(rets) < MaxCalls
    /\ rets' = Append(rets, check_upcoming_ex_div_dates(call.today))
    /\ UNCHANGED <<call, cache, data_cache, run>>

CallFetchStockData ==
    /\ call.fn = "fetch_stock_data"
    /\ Len(rets) < MaxCalls
    /\ ReturnAndCacheData(fetch_stock_data(data_cache, call.symbols, call.yf, call.rng))
    /\ UNCHANGED <<call, cache, run>>

\* the sections of main_dashboard on a given stock_data
CallSections ==
    /\ call.fn = "sections"
    /\ Len(rets) < MaxCalls
    /\ ReturnAndCache(RenderSections(cache, call.stock_data))
    /\ UNCHANGED <<call, data_cache, run>>

CallMainDashboard ==
    /\ call.fn = "main_dashboard"
    /\ Len(rets) < MaxCalls
    /\ ReturnAndCacheBoth(main_dashboard(cache, data_cache, call.today, call.yf, call.rng))
    /\ UNCHANGED <<call, run>>

\* the ttl (3600 s) of the fetch_dividend_data_from_web store runs out
CacheExpire ==
    /\ DOMAIN cache # {}
    /\ cache' = EmptyDict
    /\ UNCHANGED <<call, data_cache, rets, run>>

\* the ttl (30 s) of the fetch_stock_data store runs out
DataCacheExpire ==
    /\ DOMAIN data_cache # {}
    /\ data_cache' = EmptyDict
    /\ UNCHANGED <<call, cache, rets, run>>

\* "Refresh Data Now": st.cache_data.clear()
ClearCaches ==
    /\ DOMAIN cache # {} \/ DOMAIN data_cache # {}
    /\ cache' = EmptyDict
    /\ data_cache' = EmptyDict
    /\ UNCHANGED <<call, rets, run>>

Next ==
    \/ CallYieldMetrics
    \/ CallHistoricalYields
    \/ CallCheckExDiv
    \/ CallFetchStockData
    \/ CallSections
    \/ CallMainDashboard
    \/ CacheExpire
    \/ DataCacheExpire
    \/ ClearCaches

Spec == Init /\ [][Next]_vars

\* ---------------------------------------------------------- the script run
\* Streamlit runs the script from the top for every run; st.rerun() ends the
\* run under way and starts the next one, keeping the widgets' values and
\* the st.cache_data stores and nothing else.

\* the sidebar: the auto-refresh checkbox and the interval slider (10..300)
Sessions == [fn : {"script"}, auto_refresh : BOOLEAN, refresh_interval : {10, 30, 300}]

\* the day the session starts on: the day before the first alerts are due
SessionFirstDay == Date(2025, 9, 7)

\* yfinance during one run: rows for every symbol, an exception for STRK, or
\* no rows for STRC
SessionYf ==
    {AllHist,
     [s \in KeySet |-> IF s = "STRK" THEN [kind |-> "raise"] ELSE AllHist[s]],
     [s \in KeySet |-> IF s = "STRC" THEN [kind |-> "hist", frame |-> <<>>] ELSE AllHist[s]]}

\* a run starts at the top of the script and reaches main_dashboard; clicked
\* is what st.sidebar.button returns in this run
StartRun(today, clicked, reruns) ==
    [pc |-> "main_dashboard", today |-> today, clicked |-> clicked, pending |-> FALSE,
     slept |-> 0, rendered_on |-> None, reruns |-> reruns]

InitRefresh ==
    /\ call \in Sessions
    /\ cache = EmptyDict
    /\ data_cache = EmptyDict
    /\ rets = <<>>
    /\ run = StartRun(SessionFirstDay, FALSE, 0)

\* variant: the loop reruns without sleeping
AfterDashboardNoWait(clicked, auto_refresh) ==
    IF clicked \/ auto_refresh THEN "rerun" ELSE "done"

\* where the script stands once main_dashboard has rendered: the button ends
\* the run with st.rerun(); else the loop sleeps, or the script is over
AfterDashboard(clicked, auto_refresh) ==
    IF clicked THEN "rerun" ELSE IF auto_refresh THEN "sleep" ELSE "done"

\* the run moves on from main_dashboard
Rendered ==
    /\ call.fn = "script"
    /\ run.pc = "main_dashboard"
    /\ run' = [run EXCEPT !.pc = AfterDashboard(run.clicked, call.auto_refresh),
                          !.rendered_on = run.today]

\* main_dashboard has rendered r.ret; the button, if clicked, clears both
\* stores before st.rerun()
DashboardDone(r) ==
    /\ Rendered
    /\ rets' = Append(rets, r.ret)
    /\ cache' = IF run.clicked THEN EmptyDict ELSE r.cache
    /\ data_cache' = IF run.clicked THEN EmptyDict ELSE r.data_cache

\* main_dashboard(), in the loop or in the else branch
RunDashboard ==
    /\ call.fn = "script"
    /\ run.pc = "main_dashboard"
    /\ \E yf \in SessionYf, rng \in Seeds :
           DashboardDone(main_dashboard(cache, data_cache, run.today, yf, rng))
    /\ UNCHANGED call

\* time.sleep(refresh_interval)
Sleep ==
    /\ call.fn = "script"
    /\ run.pc = "sleep"
    /\ run' = [run EXCEPT !.pc = "rerun", !.slept = call.refresh_interval]
    /\ UNCHANGED <<call, cache, data_cache, rets>>

\* st.rerun(): the next run starts; a click made meanwhile is the button's
\* value in it
Rerun ==
    /\ call.fn = "script"
    /\ run.pc = "rerun"
    /\ rets' = <<>>
    /\ run' = StartRun(run.today, run.pending,
                       IF run.reruns < MaxReruns THEN run.reruns + 1 ELSE run.reruns)
    /\ UNCHANGED <<call, cache, data_cache>>

\* the user clicks "Refresh Data Now": while the loop sleeps the click waits
\* for the next run; once the script is over it starts the next run
Click ==
    /\ call.fn = "script"
    /\ run.pc \in {"sleep", "done"}
    /\ ~run.pending
    /\ run' = [run EXCEPT !.pending = TRUE,
                          !.pc = IF run.pc = "done" THEN "rerun" ELSE @]
    /\ UNCHANGED <<call, cache, data_cache, rets>>

\* midnight passes: datetime.now().date() is the next day
Tick ==
    /\ call.fn = "script"
    /\ DaysBetween(run.today, SessionFirstDay) < MaxTicks
    /\ run' = [run EXCEPT !.today = NextDay(run.today)]
    /\ UNCHANGED <<call, cache, data_cache, rets>>

NextRefresh ==
    \/ RunDashboard
    \/ Sleep
    \/ Rerun
    \/ Click
    \/ Tick
    \/ CacheExpire
    \/ DataCacheExpire

\* main_dashboard returns, time.sleep returns and st.rerun() restarts the
\* script: none of them can be put off forever.  Rendered is the RunDashboard
\* step as `run` shows it: RunDashboard is the only action that takes such a
\* step and it is enabled whenever the run stands at main_dashboard.
SpecRefresh ==
    /\ InitRefresh
    /\ [][NextRefresh]_vars
    /\ WF_run(Rendered)
    /\ WF_vars(Sleep)
    /\ WF_vars(Rerun)

\* ------------------------------------------------------------- properties
IsMetricsCall == call.fn = "calculate_yield_metrics"
IsHistCall == call.fn = "calculate_historical_yields"
IsAlertCall == call.fn = "check_upcoming_ex_div_dates"

Executed == 1..Len(rets)

LastClose == call.stock_data[Len(call.stock_data)].Close

\* x is the finite float num / den (den # 0), by cross-multiplication
IsFraction(x, num, den) == x.d > 0 /\ x.n * den = num * x.d

\* C1: for a non-empty series whose last close is > 0 and a symbol of the
\* table, calculate_yield_metrics returns current_price = the last close,
\* annual_dividend = par * (current_rate / 100) and
\* current_yield = annual_dividend / current_price * 100; with rate 10,
\* par 100 and price 25 the annual dividend is 10 and the yield 40.
C1_YieldFormula ==
    \A i \in Executed :
        (IsMetricsCall /\ ~Empty(call.stock_data) /\ call.symbol \in KeySet
            /\ LastClose.n > 0)
        => LET r == rets[i]
               info == PREFERRED_STOCKS[call.symbol]
           IN  /\ r.kind = "dict"
               /\ r.current_price = LastClose
               /\ IsFraction(r.annual_dividend,
                             info.par.n * info.current_rate.n,
                             info.par.d * info.current_rate.d * 100)
               /\ IsFraction(r.current_yield,
                             r.annual_dividend.n * LastClose.d * 100,
                             r.annual_dividend.d * LastClose.n)
               /\ (info.current_rate = [n |-> 10, d |-> 1] /\ LastClose = [n |-> 25, d |-> 1]
                     => /\ r.annual_dividend = [n |-> 10, d |-> 1]
                        /\ r.current_yield = [n |-> 40, d |-> 1])

C1_Witness ==
    /\ IsMetricsCall /\ Len(rets) >= 1
    /\ call.symbol = "STRK"
    /\ Len(call.stock_data) = 2
    /\ LastClose = [n |-> 11491, d |-> 100]
    /\ rets[1].kind = "dict"
    /\ rets[1].current_yield = [n |-> 80000, d |-> 11491]

\* the input rows whose close is not 0
NonZeroRows == {k \in 1..Len(call.stock_data) : call.stock_data[k].Close.n # 0}

ZeroRows == {k \in 1..Len(call.stock_data) : call.stock_data[k].Close.n = 0}

\* the j-th of them, in input order
NthNonZero(j) ==
    CHOOSE k \in NonZeroRows : Cardinality({m \in NonZeroRows : m <= k}) = j

\* C2: for a non-empty series and a symbol of the table,
\* calculate_historical_yields returns exactly the input points whose close
\* is not 0, in input order, under their timestamps, each mapped to
\* annual_dividend / close * 100; the output is shorter than the input by
\* the number of zero-close points.
C2_HistoricalExact ==
    \A i \in Executed :
        (IsHistCall /\ ~Empty(call.stock_data) /\ call.symbol \in KeySet)
        => LET out == rets[i]
               info == PREFERRED_STOCKS[call.symbol]
               \* par * (current_rate / 100) in lowest terms
               annual == Rat(info.par.n * info.current_rate.n,
                             info.par.d * info.current_rate.d * 100)
           IN  /\ Len(out) = Len(call.stock_data) - Cardinality(ZeroRows)
               /\ \A j \in 1..Len(out) :
                    LET row == call.stock_data[NthNonZero(j)]
                    IN  /\ out[j].ts = row.ts
                        /\ IsFraction(out[j].val,
                                      annual.n * row.Close.d * 100,
                                      annual.d * row.Close.n)

C2_Witness ==
    /\ IsHistCall /\ Len(rets) >= 1
    /\ call.symbol = "STRC"
    /\ Len(call.stock_data) = 3
    /\ call.stock_data[1].Close.n > 0
    /\ call.stock_data[2].Close.n = 0
    /\ call.stock_data[3].Close.n > 0
    /\ Len(rets[1]) = 2
    /\ rets[1][2].ts = call.stock_data[3].ts

\* days from FirstDay to the table's next_ex_div of a symbol
ExDivOffset(symbol) == IF symbol \in {"STRC", "STRD"} THEN 10 ELSE 25

AlertsFor(alerts, symbol) == {j \in 1..Len(alerts) : alerts[j].symbol = symbol}

\* C3: check_upcoming_ex_div_dates emits an alert for a schedule exactly when
\* 0 <= next_ex_div - today <= 7 in whole days, and the alert carries that
\* number of days: 0 on the day itself, 7 a week ahead, nothing 8 days
\* ahead or once the date has passed.
C3_AlertWindow ==
    \A i \in Executed :
        IsAlertCall
        => \E k \in 0..MaxDays :
             /\ call.today = AddDays(FirstDay, k)
             /\ \A symbol \in KeySet :
                  LET until == ExDivOffset(symbol) - k
                  IN  /\ (AlertsFor(rets[i], symbol) # {}) <=> (0 <= until /\ until <= 7)
                      /\ \A j \in AlertsFor(rets[i], symbol) :
                           rets[i][j].days_until = until

\* today + 7 (alert), today (alert with 0), today + 8 and the past (none)
C3_Witness ==
    /\ IsAlertCall /\ Len(rets) >= 1
    /\ call.today = Date(2025, 9, 23)
    /\ AlertsFor(rets[1], "STRF") # {}
    /\ AlertsFor(rets[1], "STRC") = {}
    /\ \A j \in AlertsFor(rets[1], "STRK") : rets[1][j].days_until = 7

\* C4: for a non-empty series whose last close is <= 0, calculate_yield_metrics
\* (symbol of the table) returns a result whose current_yield is 0: no
\* infinite or undefined value, nothing raised.
C4_DivisionGuard ==
    \A i \in Executed :
        (IsMetricsCall /\ ~Empty(call.stock_data) /\ call.symbol \in KeySet
            /\ LastClose.n <= 0)
        => /\ rets[i].kind = "dict"
           /\ rets[i].current_yield = Zero
           /\ rets[i].current_price = LastClose

C4_Witness ==
    /\ IsMetricsCall /\ Len(rets) >= 1
    /\ call.symbol \in KeySet
    /\ ~Empty(call.stock_data)
    /\ LastClose.n < 0
    /\ rets[1].kind = "dict"
    /\ rets[1].current_yield = Zero

\* C5 as stated: for a symbol absent from the table (non-empty series) the
\* yield computation returns metrics built from the defaults rate 0 and
\* par 100: annual dividend 0, current yield 0.
C5_DefaultsForMissing ==
    \A i \in Executed :
        (IsMetricsCall /\ ~Empty(call.stock_data) /\ call.symbol \notin KeySet)
        => /\ rets[i].kind = "dict"
           /\ rets[i].annual_dividend = Zero
           /\ rets[i].current_yield = Zero

\* C5 amended: for a symbol absent from the table calculate_yield_metrics
\* returns None (no metrics at all) and calculate_historical_yields returns
\* an empty frame; neither raises.
C5_NoneForMissing ==
    \A i \in Executed :
        /\ (IsMetricsCall /\ ~Empty(call.stock_data) /\ call.symbol \notin KeySet)
             => rets[i] = None
        /\ (IsHistCall /\ ~Empty(call.stock_data) /\ call.symbol \notin KeySet)
             => Empty(rets[i])

C5_Witness ==
    /\ IsMetricsCall /\ Len(rets) >= 1
    /\ call.symbol = "MSTR"
    /\ ~Empty(call.stock_data)
    /\ LastClose.n > 0
    /\ rets[1] = None

\* the input row an output row of calculate_historical_yields comes from
RowAt(ts) == CHOOSE k \in 1..Len(call.stock_data) : call.stock_data[k].ts = ts

\* C7 as stated: no point whose close is zero or negative contributes an
\* entry to the output of calculate_historical_yields, and the output holds
\* no negative yield.
C7_NoNonPositiveClose ==
    \A i \in Executed :
        IsHistCall
        => \A j \in 1..Len(rets[i]) :
             /\ call.stock_data[RowAt(rets[i][j].ts)].Close.n > 0
             /\ rets[i][j].val.n >= 0

\* C7 amended: no point whose close is zero contributes an entry to the
\* output of calculate_historical_yields; a point whose close is negative
\* is not excluded: for a symbol of the table it contributes an entry with
\* a negative yield.
C7_OnlyZeroCloseDropped ==
    \A i \in Executed :
        IsHistCall
        => \A k \in 1..Len(call.stock_data) :
             LET row == call.stock_data[k]
                 hits == {j \in 1..Len(rets[i]) : rets[i][j].ts = row.ts}
             IN  /\ row.Close.n = 0 => hits = {}
                 /\ (row.Close.n < 0 /\ call.symbol \in KeySet)
                      => /\ Cardinality(hits) = 1
                         /\ \A j \in hits : rets[i][j].val.n < 0 /\ rets[i][j].val.d > 0

C7_Witness ==
    /\ IsHistCall /\ Len(rets) >= 1
    /\ call.symbol = "STRD"
    /\ Len(call.stock_data) = 2
    /\ call.stock_data[1].Close.n < 0
    /\ call.stock_data[2].Close.n = 0
    /\ Len(rets[1]) = 1
    /\ rets[1][1].val = [n |-> -40, d |-> 1]

KeyIndex(symbol) == CHOOSE k \in 1..Len(Keys) : Keys[k] = symbol

\* C8: the alerts come in the insertion order of the schedule table
\* (STRC, STRD, STRF, STRK): of two alerts the one whose symbol is earlier
\* in the table is earlier in the output, and a symbol has at most one.
C8_AlertOrder ==
    \A i \in Executed :
        IsAlertCall
        => /\ \A a, b \in 1..Len(rets[i]) :
                a < b => KeyIndex(rets[i][a].symbol) < KeyIndex(rets[i][b].symbol)
           /\ \A symbol \in KeySet : Cardinality(AlertsFor(rets[i], symbol)) <= 1

C8_Witness ==
    /\ IsAlertCall /\ Len(rets) >= 1
    /\ Len(rets[1]) = 2
    /\ rets[1][1].symbol = "STRC"
    /\ rets[1][2].symbol = "STRD"

IsSectionsCall == call.fn = "sections"
IsFetchCall == call.fn = "fetch_stock_data"
IsDashboardCall == call.fn = "main_dashboard"

\* the symbols a chart, a table or a list of rows shows
CurveSymbols(page) ==
    IF page.yield_curve.kind = "chart" THEN Range(page.yield_curve.x) ELSE {}

BarSymbols(page) ==
    IF page.price_chart.kind = "chart"
    THEN {page.price_chart.bars[k].x : k \in 1..Len(page.price_chart.bars)}
    ELSE {}

TraceSymbols(page) ==
    IF page.hist_chart.kind = "chart"
    THEN {page.hist_chart.traces[k].name : k \in 1..Len(page.hist_chart.traces)}
    ELSE {}

TableSymbols(page) ==
    IF page.table.kind = "table"
    THEN {page.table.rows[k].Symbol : k \in 1..Len(page.table.rows)}
    ELSE {}

CalendarSymbols(page) == {page.calendar[k].Symbol : k \in 1..Len(page.calendar)}

PanelOf(page, symbol) ==
    page.panels[CHOOSE k \in 1..Len(page.panels) : page.panels[k].symbol = symbol]

\* the tickers whose price series is empty in the data handed to the sections
EmptyTickers ==
    {symbol \in KeySet : symbol \in DOMAIN call.stock_data.val
                         /\ Empty(call.stock_data.val[symbol])}

C9_FetchAlwaysData ==
    \A i \in Executed :
        /\ IsFetchCall
             => /\ rets[i].kind = "dict"
                /\ DOMAIN rets[i].data.val = Range(call.symbols)
                /\ Range(rets[i].data.keys) = Range(call.symbols)
                /\ \A symbol \in Range(call.symbols) : Len(rets[i].data.val[symbol]) > 0
        /\ IsDashboardCall
             => /\ rets[i].kind = "page"
                /\ {rets[i].page.metric_calls[k].symbol
                      : k \in 1..Len(rets[i].page.metric_calls)} = KeySet
                /\ \A k \in 1..Len(rets[i].page.metric_calls) :
                     Len(rets[i].page.metric_calls[k].stock_data) > 0
                /\ \A k \in 1..Len(rets[i].page.hist_calls) :
                     Len(rets[i].page.hist_calls[k].stock_data) > 0
                /\ \A k \in 1..Len(rets[i].page.panels) :
                     rets[i].page.panels[k].kind = "card"

C9_Witness ==
    /\ IsFetchCall /\ Len(rets) >= 1
    /\ call.symbols = <<"STRC", "MSTR">>
    /\ call.yf["STRC"].kind = "raise"
    /\ call.yf["MSTR"].kind = "hist" /\ Empty(call.yf["MSTR"].frame)
    /\ rets[1].kind = "dict"
    /\ Len(rets[1].data.val["STRC"]) = DummyRows
    /\ Len(rets[1].data.val["MSTR"]) = DummyRows

IsAutoRefresh == call.fn = "script" /\ call.auto_refresh

\* the run under way has invoked main_dashboard once it is past it, and never
\* more than once
OneRenderPerRun ==
    /\ Len(rets) <= 1
    /\ run.pc = "main_dashboard" => Len(rets) = 0
    /\ run.pc \in {"sleep", "rerun"} => Len(rets) = 1

\* a step that moves the run on goes from the render to one of from_render,
\* from the wait to the rerun, or from the rerun to the render of a new run
InOrder(from_render) ==
    IsAutoRefresh /\ run'.pc # run.pc =>
        \/ run.pc = "main_dashboard" /\ run'.pc \in from_render /\ Len(rets') = 1
        \/ run.pc = "sleep" /\ run'.pc = "rerun" /\ run'.slept = call.refresh_interval
        \/ run.pc = "rerun" /\ run'.pc = "main_dashboard" /\ Len(rets') = 0

\* the stock_data a rendered page was computed from: the frame handed to
\* calculate_yield_metrics for each symbol
SuppliedData(page) ==
    [keys |-> Keys,
     val |-> [symbol \in KeySet |->
                page.metric_calls[CHOOSE k \in 1..Len(page.metric_calls) :
                                     page.metric_calls[k].symbol = symbol].stock_data]]

\* the alerts are those due on the day `today`, counted from that day
AlertsOfDay(alerts, today) ==
    \A symbol \in KeySet :
        /\ (AlertsFor(alerts, symbol) # {})
              <=> (0 <= ExDivOffset(symbol) - DaysBetween(today, FirstDay)
                     /\ ExDivOffset(symbol) - DaysBetween(today, FirstDay) <= 7)
        /\ \A j \in AlertsFor(alerts, symbol) :
              alerts[j].days_until = ExDivOffset(symbol) - DaysBetween(today, FirstDay)

\* what a run has rendered is what the table, the day of the render and the
\* price data of the run give when computed afresh, whatever earlier runs
\* left behind
Recomputed ==
    \A i \in 1..Len(rets) :
        /\ rets[i].kind = "page"
        /\ AlertsOfDay(rets[i].alerts, run.rendered_on)
        /\ rets[i].page = RenderSections(EmptyDict, SuppliedData(rets[i].page)).ret

\* with auto-refresh on, a render is followed by a new run and a new run by
\* a render
RenderAgain ==
    /\ (IsAutoRefresh /\ Len(rets) = 1) ~> (Len(rets) = 0)
    /\ (IsAutoRefresh /\ Len(rets) = 0) ~> (Len(rets) = 1)

\* C11 as stated: with auto-refresh on, every run invokes main_dashboard
\* once, then waits refresh_interval, then reruns, in that order and for ever,
\* and what it renders is recomputed from the table and the price data.
C11_RenderWaitRerun ==
    /\ [](IsAutoRefresh => OneRenderPerRun /\ Recomputed)
    /\ [](IsAutoRefresh /\ run.pc = "rerun" => run.slept = call.refresh_interval)
    /\ [][InOrder({"sleep"})]_vars
    /\ RenderAgain

\* C11: with auto-refresh on, every run invokes main_dashboard once and then
\* either waits refresh_interval and reruns or, in a run started by a click on
\* "Refresh Data Now", clears both stores and reruns without waiting; every
\* render is followed by another one, and what a run renders is recomputed
\* from the table, the day and the price data of that run.
C11_RenderThenWaitOrClear ==
    /\ [](IsAutoRefresh => OneRenderPerRun /\ Recomputed)
    /\ [](IsAutoRefresh /\ run.pc = "rerun" =>
             IF run.clicked
             THEN run.slept = 0 /\ cache = EmptyDict /\ data_cache = EmptyDict
             ELSE run.slept = call.refresh_interval)
    /\ [][InOrder({"sleep", "rerun"})]_vars
    /\ [][IsAutoRefresh /\ run.pc = "main_dashboard" /\ run'.pc = "rerun" => run.clicked]_vars
    /\ RenderAgain

\* a later run, served by warm stores, has rendered alerts, waited and is
\* about to rerun
C11_Witness ==
    /\ IsAutoRefresh
    /\ run.pc = "rerun"
    /\ run.reruns >= 1
    /\ ~run.clicked
    /\ run.slept = call.refresh_interval
    /\ Len(rets) = 1
    /\ Len(rets[1].alerts) > 0
    /\ DOMAIN cache # {}

\* the calendar rows of a ticker
CalendarRows(page, symbol) ==
    {j \in 1..Len(page.calendar) : page.calendar[j].Symbol = symbol}

\* C12 as stated: in every render, the dividend shown by a ticker's
\* ex-dividend alert equals the 'Dividend Amount' of the ticker's row in the
\* dividend calendar, whatever its payment frequency.
C12_AlertMatchesCalendar ==
    \A i \in Executed :
        IsDashboardCall /\ rets[i].kind = "page"
            => \A k \in 1..Len(rets[i].banner) :
                   /\ CalendarRows(rets[i].page, rets[i].banner[k].symbol) # {}
                   /\ \A j \in CalendarRows(rets[i].page, rets[i].banner[k].symbol) :
                         rets[i].banner[k].dividend = rets[i].page.calendar[j].DividendAmount

\* a render whose banner holds an alert
C12_Witness ==
    /\ IsDashboardCall /\ Len(rets) >= 1
    /\ rets[1].kind = "page"
    /\ \E k \in 1..Len(rets[1].banner) : rets[1].banner[k].symbol = "STRC"

====
